---- MODULE Spec2Model ----
(***************************************************************************)
(* Credential / token lifecycle of src/src/managers/user.ts.               *)
(*                                                                         *)
(* The store is the table of user records.  Every exported operation of    *)
(* the manager is an async function, and other callers run while it waits  *)
(* for an awaited call.  A step of a caller is the answer of one awaited   *)
(* call together with the synchronous code that follows it, up to and      *)
(* including the next call it makes: the lookup step (the find* call and   *)
(* the checks after it), then one step for each awaited validatePassword,  *)
(* hasPasswordBeenPwned, hashPassword, generateToken, generatePinToken,    *)
(* create, update and sendMail.  The arguments of a store call, new Date() *)
(* included, are evaluated in the step that makes the call; the write      *)
(* lands in the step in which the call answers.  Several callers run       *)
(* concurrently.  Time is counted in whole minutes.                        *)
(***************************************************************************)
EXTENDS Integers, Sequences, FiniteSets, TLC

VARIABLES
    users,   \* the store: sequence of user records, users[i].id = i
    now,     \* the wall clock (new Date()), in minutes
    pc,      \* pc[p]: where caller p stands in its operation
    loc,     \* loc[p]: the operation caller p is in, its arguments and locals
             \* and the arguments (fields) of the store call it awaits
    done,    \* the operation the last step ended, if it ended one: the token
             \* presented, the row looked up (0: none) as it was before the
             \* step, the result and the sendMail calls of the operation
    calls    \* number of operations started so far

vars == <<users, now, pc, loc, done, calls>>

(***************************************************************************)
(* Bounds of the model.                                                    *)
(***************************************************************************)
MaxCalls == 2      \* operations started in one run
MaxTicks == 2      \* minutes the clock advances in one run
StartTime == 10    \* the clock at start, later than every duration

Procs == {1, 2}                       \* concurrent callers
Emails == {"a@b.com", "new@b.com"}
Hosts == {"https://host"}
Passwords == {"Password123!", "weak", "leaked"}
Tokens == {"t1", "t2"}                \* values generateToken can return
PinTokens == {"111", "222"}           \* values generatePinToken can return
Profiles == {[given_name |-> "G", family_name |-> "F",
              phone_number |-> "0", job |-> "J"]}

(***************************************************************************)
(* Values.                                                                 *)
(***************************************************************************)
Null == "null"      \* null in a token, password or profile column
NoDate == -1        \* null in a timestamp column
Absent == [id |-> 0]   \* what a lookup returns when no row matches

isEmpty(user) == user = Absent

\* JavaScript truthiness of a string argument: !token holds for '' and null.
truthy(token) == token # "" /\ token # Null

(***************************************************************************)
(* Environment: expiration durations, in minutes.                          *)
(***************************************************************************)
VERIFY_EMAIL_TOKEN_EXPIRATION_DURATION_IN_MINUTES == 1
MAGIC_LINK_TOKEN_EXPIRATION_DURATION_IN_MINUTES == 1
RESET_PASSWORD_TOKEN_EXPIRATION_DURATION_IN_MINUTES == 1
MAX_DURATION_BETWEEN_TWO_EMAIL_ADDRESS_VERIFICATION_IN_MINUTES == 1

(***************************************************************************)
(* Expiration Clock.  Expired when now - sentAt > duration; at exactly the *)
(* duration the token is still valid.  A null date enters the subtraction  *)
(* as the epoch (JavaScript date arithmetic coerces null to 0), and the    *)
(* clock is always later than epoch + duration.                            *)
(***************************************************************************)
isExpiredAt(emittedDate, expirationDurationInMinutes, nowDate) ==
    LET emitted == IF emittedDate = NoDate THEN 0 ELSE emittedDate
    IN  nowDate - emitted > expirationDurationInMinutes

isExpired(emittedDate, expirationDurationInMinutes) ==
    isExpiredAt(emittedDate, expirationDurationInMinutes, now)

(***************************************************************************)
(* Password Policy and hashing.                                            *)
(***************************************************************************)
isPasswordSecure(password, email) == password \notin {"weak", email}

hasPasswordBeenPwned(password) == password = "leaked"

hashPassword(password) == "$2a$" \o password

validatePassword(password, hash) ==
    /\ truthy(password)
    /\ truthy(hash)
    /\ hash = hashPassword(password)

(***************************************************************************)
(* Credential Store.                                                       *)
(***************************************************************************)
Ids == 1..Len(users)

Matching(field, value) == {i \in Ids : users[i][field] = value}

First(S) == CHOOSE i \in S : \A j \in S : i <= j

findBy(field, value) ==
    IF Matching(field, value) = {} THEN Absent
    ELSE users[First(Matching(field, value))]

findByEmail(email) == findBy("email", email)

findByMagicLinkToken(token) == findBy("magic_link_token", token)

findByResetPasswordToken(token) == findBy("reset_password_token", token)

Merge(row, fields) ==
    [f \in DOMAIN row |-> IF f \in DOMAIN fields THEN fields[f] ELSE row[f]]

\* The row create() inserts: the supplied fields over the column defaults.
NewUser(id, fields) ==
    LET defaults ==
          [id |-> id, email |-> Null, encrypted_password |-> Null,
           email_verified |-> FALSE, email_verified_at |-> NoDate,
           verify_email_token |-> Null, verify_email_sent_at |-> NoDate,
           magic_link_token |-> Null, magic_link_sent_at |-> NoDate,
           reset_password_token |-> Null, reset_password_sent_at |-> NoDate,
           sign_in_count |-> 0, last_sign_in_at |-> NoDate,
           given_name |-> Null, family_name |-> Null,
           phone_number |-> Null, job |-> Null]
    IN  Merge(defaults, fields)

\* email is the unique identity key of the store: create is rejected for an
\* email a row already holds.
create_rejected(fields) == ~isEmpty(findByEmail(fields.email))

\* How an operation ends after its awaited create.
AfterCreate(fields) == IF create_rejected(fields) THEN "StoreError" ELSE "ok"

\* Mutant: the store inserts a second row for an email it already holds.
create_appendsDuplicate(fields) ==
    Append(users, NewUser(Len(users) + 1, fields))

create(fields) ==
    IF create_rejected(fields) THEN users
    ELSE Append(users, NewUser(Len(users) + 1, fields))

\* update() merges the supplied fields into the row as it is now.
update(id, fields) == [users EXCEPT ![id] = Merge(@, fields)]

(***************************************************************************)
(* Token Generator.  A generated token is random.  An opaque token is     *)
(* long enough never to repeat a value held by, or on its way to, another  *)
(* row: it is any value of the alphabet that no other user's row holds in  *)
(* the same column and no update in flight carries to another row.  A PIN  *)
(* token is short and is any value of its alphabet.                        *)
(***************************************************************************)
Fresh(field, id, values) ==
    {t \in values :
        /\ \A i \in Ids \ {id} : users[i][field] # t
        /\ \A q \in Procs :
              (/\ pc[q] \in {"sendSendMagicLinkEmail_update",
                             "sendResetPasswordEmail_update"}
               /\ loc[q].id # id
               /\ field \in DOMAIN loc[q].fields)
              => loc[q].fields[field] # t}

generateToken(field, id) == Fresh(field, id, Tokens)

generatePinToken == PinTokens

(***************************************************************************)
(* Notification Sink.  sendMail is a network call: it delivers or rejects. *)
(* A rejected call makes the awaiting operation fail with the sink's       *)
(* error; either way the call was made.                                    *)
(***************************************************************************)
MailOutcomes == {"delivered", "rejected"}

\* How an issue operation ends after its awaited sendMail.
AfterMail(delivery) == IF delivery = "delivered" THEN "true" ELSE "MailError"

(***************************************************************************)
(* Steps of a caller.                                                      *)
(***************************************************************************)
NoCall == [op |-> "none", id |-> 0]

Ended(call, outcome, messages) ==
    [op |-> call.op, id |-> call.id, ret |-> outcome, mail |-> messages,
     token |-> IF "token" \in DOMAIN call THEN call.token ELSE Null,
     before |-> IF call.id \in Ids THEN users[call.id] ELSE Absent]

NothingEnded == Ended(NoCall, "none", <<>>)

\* Callers are anonymous: a new operation is taken by the lowest idle one.
CanStart(p) ==
    /\ pc[p] = "idle"
    /\ \A q \in Procs : q < p => pc[q] # "idle"
    /\ calls < MaxCalls

\* Caller p starts an operation: its lookup step ends either by throwing /
\* returning `outcome`, or (outcome = "await") at the awaited store call
\* `next`.  `call` holds the operation's name, the id of the row looked up
\* and the locals the later steps read.
Start(p, call, outcome, next) ==
    /\ CanStart(p)
    /\ calls' = calls + 1
    /\ IF outcome = "await"
       THEN /\ pc' = [pc EXCEPT ![p] = next]
            /\ loc' = [loc EXCEPT ![p] = call]
            /\ done' = NothingEnded
       ELSE /\ done' = Ended(call, outcome, <<>>)
            /\ UNCHANGED <<pc, loc>>
    /\ UNCHANGED <<users, now>>

\* Caller p goes on to the awaited call `next` of its operation.
Await(p, next) ==
    /\ pc' = [pc EXCEPT ![p] = next]
    /\ done' = NothingEnded
    /\ UNCHANGED <<loc, now, calls>>

\* The locals `call` with the arguments `fields` of the store call made.
WithFields(call, fields) ==
    [f \in DOMAIN call \cup {"fields"} |->
        IF f = "fields" THEN fields ELSE call[f]]

\* Caller p makes the store call `next` with the arguments `fields`.
Call(p, next, fields) ==
    /\ pc' = [pc EXCEPT ![p] = next]
    /\ loc' = [loc EXCEPT ![p] = WithFields(@, fields)]
    /\ done' = NothingEnded
    /\ UNCHANGED <<now, calls>>

\* Caller p ends its operation with `outcome`, having sent `messages`.
Finish(p, outcome, messages) ==
    /\ pc' = [pc EXCEPT ![p] = "idle"]
    /\ loc' = [loc EXCEPT ![p] = NoCall]
    /\ done' = Ended(loc[p], outcome, messages)
    /\ UNCHANGED <<now, calls>>

(***************************************************************************)
(* login, user.ts 64-82                                                    *)
(***************************************************************************)
login_lookup(email) ==
    IF isEmpty(findByEmail(email)) THEN "InvalidCredentialsError"
    ELSE "await"

login_fields(sign_in_count) ==
    [sign_in_count |-> sign_in_count + 1, last_sign_in_at |-> now]

login(p, email, password) ==
    LET user == findByEmail(email)
    IN  Start(p, [op |-> "login", id |-> user.id, password |-> password,
                  encrypted_password |-> IF isEmpty(user) THEN Null
                                         ELSE user.encrypted_password,
                  sign_in_count |-> IF isEmpty(user) THEN 0
                                    ELSE user.sign_in_count],
              login_lookup(email), "login_validatePassword")

\* validatePassword answers, on the row as findByEmail returned it; on a
\* match update is called.
login_validatePassword(p) ==
    /\ pc[p] = "login_validatePassword"
    /\ users' = users
    /\ IF validatePassword(loc[p].password, loc[p].encrypted_password)
       THEN Call(p, "login_update", login_fields(loc[p].sign_in_count))
       ELSE Finish(p, "InvalidCredentialsError", <<>>)

login_update(p) ==
    /\ pc[p] = "login_update"
    /\ users' = update(loc[p].id, loc[p].fields)
    /\ Finish(p, "ok", <<>>)

(***************************************************************************)
(* signup, user.ts 84-109                                                  *)
(***************************************************************************)
\* Mutant: the password policy runs before the email is looked up.
signup_lookup_passwordFirst(email, password) ==
    LET user == findByEmail(email)
    IN  IF ~isPasswordSecure(password, email) THEN "WeakPasswordError"
        ELSE IF ~isEmpty(user) THEN "EmailUnavailableError"
        ELSE "await"

signup_lookup(email, password) ==
    LET user == findByEmail(email)
    IN  IF ~isEmpty(user) THEN "EmailUnavailableError"
        ELSE IF ~isPasswordSecure(password, email) THEN "WeakPasswordError"
        ELSE "await"

signup_fields(email, password) ==
    [email |-> email, encrypted_password |-> hashPassword(password),
     last_sign_in_at |-> now]

signup(p, email, password) ==
    Start(p, [op |-> "signup", id |-> findByEmail(email).id,
              email |-> email, password |-> password],
          signup_lookup(email, password), "signup_hasPasswordBeenPwned")

\* The breach check answers.
signup_hasPasswordBeenPwned(p) ==
    /\ pc[p] = "signup_hasPasswordBeenPwned"
    /\ users' = users
    /\ IF hasPasswordBeenPwned(loc[p].password)
       THEN Finish(p, "LeakedPasswordError", <<>>)
       ELSE Await(p, "signup_hashPassword")

\* hashPassword answers: create is called.
signup_hashPassword(p) ==
    /\ pc[p] = "signup_hashPassword"
    /\ users' = users
    /\ Call(p, "signup_create", signup_fields(loc[p].email, loc[p].password))

\* create answers: the operation returns the new user, or fails with the
\* store's error.
signup_create(p) ==
    /\ pc[p] = "signup_create"
    /\ users' = create(loc[p].fields)
    /\ Finish(p, AfterCreate(loc[p].fields), <<>>)

(***************************************************************************)
(* sendEmailAddressVerificationEmail, user.ts 111-159                      *)
(***************************************************************************)
\* Mutant: an already verified email is not refused.
sendEmailAddressVerificationEmail_lookup_skipsVerified(email, checkBeforeSend) ==
    LET user == findByEmail(email)
    IN  IF isEmpty(user) THEN "UserNotFoundError"
        ELSE IF checkBeforeSend
                /\ ~isExpired(user.verify_email_sent_at,
                              VERIFY_EMAIL_TOKEN_EXPIRATION_DURATION_IN_MINUTES)
             THEN "false"
        ELSE "await"

sendEmailAddressVerificationEmail_lookup(email, checkBeforeSend) ==
    LET user == findByEmail(email)
    IN  IF isEmpty(user) THEN "UserNotFoundError"
        ELSE IF user.email_verified THEN "EmailVerifiedAlreadyError"
        ELSE IF checkBeforeSend
                /\ ~isExpired(user.verify_email_sent_at,
                              VERIFY_EMAIL_TOKEN_EXPIRATION_DURATION_IN_MINUTES)
             THEN "false"
        ELSE "await"

sendEmailAddressVerificationEmail_fields(verify_email_token) ==
    [verify_email_token |-> verify_email_token, verify_email_sent_at |-> now]

sendEmailAddressVerificationEmail(p, email, checkBeforeSend) ==
    LET user == findByEmail(email)
    IN  Start(p, [op |-> "sendEmailAddressVerificationEmail", id |-> user.id,
                  user |-> user, verify_email_token |-> Null],
              sendEmailAddressVerificationEmail_lookup(email, checkBeforeSend),
              "sendEmailAddressVerificationEmail_generatePinToken")

\* verify_email_token.replace(/(.{3})/g, '$1 '): a space after every complete
\* group of three characters.
RECURSIVE readable_verify_email_token(_)
readable_verify_email_token(verify_email_token) ==
    IF Len(verify_email_token) < 3 THEN verify_email_token
    ELSE SubSeq(verify_email_token, 1, 3) \o " "
         \o readable_verify_email_token(
                SubSeq(verify_email_token, 4, Len(verify_email_token)))

\* generatePinToken answers: update is called.
sendEmailAddressVerificationEmail_generatePinToken(p, verify_email_token) ==
    /\ pc[p] = "sendEmailAddressVerificationEmail_generatePinToken"
    /\ verify_email_token \in generatePinToken
    /\ users' = users
    /\ pc' = [pc EXCEPT ![p] = "sendEmailAddressVerificationEmail_update"]
    /\ loc' = [loc EXCEPT ![p] =
                 WithFields([@ EXCEPT !.verify_email_token = verify_email_token],
                            sendEmailAddressVerificationEmail_fields(
                                verify_email_token))]
    /\ done' = NothingEnded
    /\ UNCHANGED <<now, calls>>

sendEmailAddressVerificationEmail_update(p) ==
    /\ pc[p] = "sendEmailAddressVerificationEmail_update"
    /\ users' = update(loc[p].id, loc[p].fields)
    /\ Await(p, "sendEmailAddressVerificationEmail_sendMail")

\* sendMail answers: the operation returns true, or fails with the sink's
\* error.
sendEmailAddressVerificationEmail_sendMail(p, delivery) ==
    /\ pc[p] = "sendEmailAddressVerificationEmail_sendMail"
    /\ users' = users
    /\ Finish(p, AfterMail(delivery),
              <<[to |-> loc[p].user.email,
                 template |-> "verify-email",
                 token |-> readable_verify_email_token(
                               loc[p].verify_email_token)]>>)

(***************************************************************************)
(* verifyEmail, user.ts 161-190                                            *)
(***************************************************************************)
\* Mutant: an expired token is reported with an error kind of its own.
verifyEmail_lookup_tellsExpiry(email, token) ==
    LET user == findByEmail(email)
    IN  IF isEmpty(user) THEN "UserNotFoundError"
        ELSE IF user.verify_email_token # token THEN "InvalidTokenError"
        ELSE IF isExpired(user.verify_email_sent_at,
                          VERIFY_EMAIL_TOKEN_EXPIRATION_DURATION_IN_MINUTES)
             THEN "ExpiredTokenError"
        ELSE "await"

verifyEmail_lookup(email, token) ==
    LET user == findByEmail(email)
    IN  IF isEmpty(user) THEN "UserNotFoundError"
        ELSE IF user.verify_email_token # token THEN "InvalidTokenError"
        ELSE IF isExpired(user.verify_email_sent_at,
                          VERIFY_EMAIL_TOKEN_EXPIRATION_DURATION_IN_MINUTES)
             THEN "InvalidTokenError"
        ELSE "await"

\* Mutant: the consume update sets the flag without its timestamp.
verifyEmail_fields_noDate ==
    [email_verified |-> TRUE,
     verify_email_token |-> Null, verify_email_sent_at |-> NoDate]

\* Mutant: the consume update leaves the token pair in place.
verifyEmail_fields_keepsToken ==
    [email_verified |-> TRUE, email_verified_at |-> now]

verifyEmail_fields ==
    [email_verified |-> TRUE, email_verified_at |-> now,
     verify_email_token |-> Null, verify_email_sent_at |-> NoDate]

verifyEmail(p, email, token) ==
    LET user == findByEmail(email)
    IN  Start(p, [op |-> "verifyEmail", id |-> user.id, token |-> token,
                  fields |-> verifyEmail_fields],
              verifyEmail_lookup(email, token), "verifyEmail_update")

verifyEmail_update(p) ==
    /\ pc[p] = "verifyEmail_update"
    /\ users' = update(loc[p].id, loc[p].fields)
    /\ Finish(p, "ok", <<>>)

(***************************************************************************)
(* updateEmailAddressVerificationStatus, user.ts 192-216                   *)
(***************************************************************************)
\* Mutant: a verified email needs renewal however recent the verification.
updateEmailAddressVerificationStatus_lookup_ignoresWindow(email) ==
    LET user == findByEmail(email)
    IN  IF isEmpty(user) THEN "UserNotFoundError"
        ELSE IF user.email_verified THEN "await"
        ELSE "no_renewal"

updateEmailAddressVerificationStatus_lookup(email) ==
    LET user == findByEmail(email)
    IN  IF isEmpty(user) THEN "UserNotFoundError"
        ELSE IF user.email_verified
                /\ isExpired(user.email_verified_at,
                     MAX_DURATION_BETWEEN_TWO_EMAIL_ADDRESS_VERIFICATION_IN_MINUTES)
             THEN "await"
        ELSE "no_renewal"

updateEmailAddressVerificationStatus_fields == [email_verified |-> FALSE]

updateEmailAddressVerificationStatus(p, email) ==
    LET user == findByEmail(email)
    IN  Start(p, [op |-> "updateEmailAddressVerificationStatus",
                  id |-> user.id,
                  fields |-> updateEmailAddressVerificationStatus_fields],
              updateEmailAddressVerificationStatus_lookup(email),
              "updateEmailAddressVerificationStatus_update")

updateEmailAddressVerificationStatus_update(p) ==
    /\ pc[p] = "updateEmailAddressVerificationStatus_update"
    /\ users' = update(loc[p].id, loc[p].fields)
    /\ Finish(p, "needs_renewal", <<>>)

(***************************************************************************)
(* sendSendMagicLinkEmail, user.ts 218-248                                 *)
(***************************************************************************)
\* Mutant: a user is created whether or not the email has a record.
sendSendMagicLinkEmail_lookup_alwaysCreates(email) ==
    "sendSendMagicLinkEmail_create"

sendSendMagicLinkEmail_lookup(email) ==
    IF isEmpty(findByEmail(email)) THEN "sendSendMagicLinkEmail_create"
    ELSE "sendSendMagicLinkEmail_generateToken"

sendSendMagicLinkEmail_newUser(email) ==
    [email |-> email, last_sign_in_at |-> now]

sendSendMagicLinkEmail_fields(magicLinkToken) ==
    [magic_link_token |-> magicLinkToken, magic_link_sent_at |-> now]

magic_link(host, magicLinkToken) ==
    host \o "/users/sign-in-with-magic-link?magic_link_token=" \o magicLinkToken

sendSendMagicLinkEmail(p, email, host) ==
    LET user == findByEmail(email)
        next == sendSendMagicLinkEmail_lookup(email)
        call == [op |-> "sendSendMagicLinkEmail", id |-> user.id,
                 user |-> user, email |-> email, host |-> host,
                 magicLinkToken |-> Null]
    IN  Start(p, IF next = "sendSendMagicLinkEmail_create"
                 THEN WithFields(call, sendSendMagicLinkEmail_newUser(email))
                 ELSE call,
              "await", next)

\* create answers: generateToken is called, or the operation fails with the
\* store's error.
sendSendMagicLinkEmail_create(p) ==
    /\ pc[p] = "sendSendMagicLinkEmail_create"
    /\ users' = create(loc[p].fields)
    /\ IF create_rejected(loc[p].fields)
       THEN Finish(p, AfterCreate(loc[p].fields), <<>>)
       ELSE /\ loc' = [loc EXCEPT ![p].id = Len(users) + 1,
                                  ![p].user = users'[Len(users) + 1]]
            /\ pc' = [pc EXCEPT ![p] = "sendSendMagicLinkEmail_generateToken"]
            /\ done' = NothingEnded
            /\ UNCHANGED <<now, calls>>

\* generateToken answers: update is called.
sendSendMagicLinkEmail_generateToken(p, magicLinkToken) ==
    /\ pc[p] = "sendSendMagicLinkEmail_generateToken"
    /\ magicLinkToken \in generateToken("magic_link_token", loc[p].id)
    /\ users' = users
    /\ pc' = [pc EXCEPT ![p] = "sendSendMagicLinkEmail_update"]
    /\ loc' = [loc EXCEPT ![p] =
                 WithFields([@ EXCEPT !.magicLinkToken = magicLinkToken],
                            sendSendMagicLinkEmail_fields(magicLinkToken))]
    /\ done' = NothingEnded
    /\ UNCHANGED <<now, calls>>

\* Mutant: a re-issue mails the new token and refreshes the timestamp but
\* keeps the pending token in the store.
sendSendMagicLinkEmail_update_keepsPending(p) ==
    /\ pc[p] = "sendSendMagicLinkEmail_update"
    /\ users' = update(loc[p].id,
                       IF users[loc[p].id].magic_link_token = Null
                       THEN loc[p].fields
                       ELSE [magic_link_sent_at |->
                                loc[p].fields.magic_link_sent_at])
    /\ Await(p, "sendSendMagicLinkEmail_sendMail")

sendSendMagicLinkEmail_update(p) ==
    /\ pc[p] = "sendSendMagicLinkEmail_update"
    /\ users' = update(loc[p].id, loc[p].fields)
    /\ Await(p, "sendSendMagicLinkEmail_sendMail")

\* sendMail answers: the operation returns true, or fails with the sink's
\* error.
sendSendMagicLinkEmail_sendMail(p, delivery) ==
    /\ pc[p] = "sendSendMagicLinkEmail_sendMail"
    /\ users' = users
    /\ Finish(p, AfterMail(delivery),
              <<[to |-> loc[p].user.email,
                 template |-> "magic-link",
                 token |-> loc[p].magicLinkToken,
                 link |-> magic_link(loc[p].host, loc[p].magicLinkToken)]>>)

(***************************************************************************)
(* loginWithMagicLink, user.ts 250-278                                     *)
(***************************************************************************)
\* Mutant: the empty-token guard throws the error kind of changePassword.
loginWithMagicLink_lookup_wrongKind(token) ==
    LET user == findByMagicLinkToken(token)
    IN  IF ~truthy(token) THEN "InvalidTokenError"
        ELSE IF isEmpty(user) THEN "InvalidMagicLinkError"
        ELSE IF isExpired(user.magic_link_sent_at,
                          MAGIC_LINK_TOKEN_EXPIRATION_DURATION_IN_MINUTES)
             THEN "InvalidMagicLinkError"
        ELSE "await"

loginWithMagicLink_lookup(token) ==
    LET user == findByMagicLinkToken(token)
    IN  IF ~truthy(token) THEN "InvalidMagicLinkError"
        ELSE IF isEmpty(user) THEN "InvalidMagicLinkError"
        ELSE IF isExpired(user.magic_link_sent_at,
                          MAGIC_LINK_TOKEN_EXPIRATION_DURATION_IN_MINUTES)
             THEN "InvalidMagicLinkError"
        ELSE "await"

\* Mutant: the consume update forgets to clear magic_link_sent_at.
loginWithMagicLink_fields_keepsSentAt ==
    [email_verified |-> TRUE, email_verified_at |-> now,
     magic_link_token |-> Null, last_sign_in_at |-> now]

loginWithMagicLink_fields ==
    [email_verified |-> TRUE, email_verified_at |-> now,
     magic_link_token |-> Null, magic_link_sent_at |-> NoDate,
     last_sign_in_at |-> now]

loginWithMagicLink(p, token) ==
    LET user == findByMagicLinkToken(token)
    IN  Start(p, [op |-> "loginWithMagicLink", id |-> user.id, token |-> token,
                  fields |-> loginWithMagicLink_fields],
              loginWithMagicLink_lookup(token), "loginWithMagicLink_update")

loginWithMagicLink_update(p) ==
    /\ pc[p] = "loginWithMagicLink_update"
    /\ users' = update(loc[p].id, loc[p].fields)
    /\ Finish(p, "ok", <<>>)

(***************************************************************************)
(* sendResetPasswordEmail, user.ts 280-308                                 *)
(***************************************************************************)
sendResetPasswordEmail_lookup(email) ==
    IF isEmpty(findByEmail(email)) THEN "true" ELSE "await"

sendResetPasswordEmail_fields(resetPasswordToken) ==
    [reset_password_token |-> resetPasswordToken, reset_password_sent_at |-> now]

reset_password_link(host, resetPasswordToken) ==
    host \o "/users/change-password?reset_password_token=" \o resetPasswordToken

sendResetPasswordEmail(p, email, host) ==
    LET user == findByEmail(email)
    IN  Start(p, [op |-> "sendResetPasswordEmail", id |-> user.id,
                  user |-> user, host |-> host, resetPasswordToken |-> Null],
              sendResetPasswordEmail_lookup(email),
              "sendResetPasswordEmail_generateToken")

\* generateToken answers: update is called.
sendResetPasswordEmail_generateToken(p, resetPasswordToken) ==
    /\ pc[p] = "sendResetPasswordEmail_generateToken"
    /\ resetPasswordToken \in generateToken("reset_password_token", loc[p].id)
    /\ users' = users
    /\ pc' = [pc EXCEPT ![p] = "sendResetPasswordEmail_update"]
    /\ loc' = [loc EXCEPT ![p] =
                 WithFields([@ EXCEPT !.resetPasswordToken = resetPasswordToken],
                            sendResetPasswordEmail_fields(resetPasswordToken))]
    /\ done' = NothingEnded
    /\ UNCHANGED <<now, calls>>

sendResetPasswordEmail_update(p) ==
    /\ pc[p] = "sendResetPasswordEmail_update"
    /\ users' = update(loc[p].id, loc[p].fields)
    /\ Await(p, "sendResetPasswordEmail_sendMail")

\* Mutant: a rejected notification takes the stored token back.
sendResetPasswordEmail_sendMail_rollsBack(p, delivery) ==
    /\ pc[p] = "sendResetPasswordEmail_sendMail"
    /\ users' = IF delivery = "rejected"
                THEN update(loc[p].id,
                            [reset_password_token |-> Null,
                             reset_password_sent_at |-> NoDate])
                ELSE users
    /\ Finish(p, AfterMail(delivery),
              <<[to |-> loc[p].user.email,
                 template |-> "reset-password",
                 token |-> loc[p].resetPasswordToken,
                 link |-> reset_password_link(loc[p].host,
                                              loc[p].resetPasswordToken)]>>)

\* sendMail answers: the operation returns true, or fails with the sink's
\* error.
sendResetPasswordEmail_sendMail(p, delivery) ==
    /\ pc[p] = "sendResetPasswordEmail_sendMail"
    /\ users' = users
    /\ Finish(p, AfterMail(delivery),
              <<[to |-> loc[p].user.email,
                 template |-> "reset-password",
                 token |-> loc[p].resetPasswordToken,
                 link |-> reset_password_link(loc[p].host,
                                              loc[p].resetPasswordToken)]>>)

(***************************************************************************)
(* changePassword, user.ts 310-351                                         *)
(***************************************************************************)
\* Mutant: the new password is not run through the Password Policy.
changePassword_lookup_noPolicy(token, password) ==
    LET user == findByResetPasswordToken(token)
    IN  IF ~truthy(token) THEN "InvalidTokenError"
        ELSE IF isEmpty(user) THEN "InvalidTokenError"
        ELSE IF isExpired(user.reset_password_sent_at,
                          RESET_PASSWORD_TOKEN_EXPIRATION_DURATION_IN_MINUTES)
             THEN "InvalidTokenError"
        ELSE "await"

changePassword_lookup(token, password) ==
    LET user == findByResetPasswordToken(token)
    IN  IF ~truthy(token) THEN "InvalidTokenError"
        ELSE IF isEmpty(user) THEN "InvalidTokenError"
        ELSE IF isExpired(user.reset_password_sent_at,
                          RESET_PASSWORD_TOKEN_EXPIRATION_DURATION_IN_MINUTES)
             THEN "InvalidTokenError"
        ELSE IF ~isPasswordSecure(password, user.email) THEN "WeakPasswordError"
        ELSE "await"

\* Mutant: the consume update forgets to mark the email verified.
changePassword_fields_notVerified(password) ==
    [encrypted_password |-> hashPassword(password),
     reset_password_token |-> Null, reset_password_sent_at |-> NoDate]

changePassword_fields(password) ==
    [encrypted_password |-> hashPassword(password),
     email_verified |-> TRUE, email_verified_at |-> now,
     reset_password_token |-> Null, reset_password_sent_at |-> NoDate]

changePassword(p, token, password) ==
    LET user == findByResetPasswordToken(token)
    IN  Start(p, [op |-> "changePassword", id |-> user.id, token |-> token,
                  password |-> password],
              changePassword_lookup(token, password),
              "changePassword_hasPasswordBeenPwned")

\* The breach check answers.
changePassword_hasPasswordBeenPwned(p) ==
    /\ pc[p] = "changePassword_hasPasswordBeenPwned"
    /\ users' = users
    /\ IF hasPasswordBeenPwned(loc[p].password)
       THEN Finish(p, "LeakedPasswordError", <<>>)
       ELSE Await(p, "changePassword_hashPassword")

\* hashPassword answers: update is called.
changePassword_hashPassword(p) ==
    /\ pc[p] = "changePassword_hashPassword"
    /\ users' = users
    /\ Call(p, "changePassword_update", changePassword_fields(loc[p].password))

changePassword_update(p) ==
    /\ pc[p] = "changePassword_update"
    /\ users' = update(loc[p].id, loc[p].fields)
    /\ Finish(p, "ok", <<>>)

(***************************************************************************)
(* updatePersonalInformations, user.ts 353-368                             *)
(***************************************************************************)
\* Mutant: the profile update also clears the password.
updatePersonalInformations_fields_clearsPassword(profile) ==
    [given_name |-> profile.given_name, family_name |-> profile.family_name,
     phone_number |-> profile.phone_number, job |-> profile.job,
     encrypted_password |-> Null]

updatePersonalInformations_fields(profile) ==
    [given_name |-> profile.given_name, family_name |-> profile.family_name,
     phone_number |-> profile.phone_number, job |-> profile.job]

updatePersonalInformations(p, userId, profile) ==
    /\ userId \in Ids
    /\ Start(p, [op |-> "updatePersonalInformations", id |-> userId,
                 fields |-> updatePersonalInformations_fields(profile)],
             "await", "updatePersonalInformations_update")

updatePersonalInformations_update(p) ==
    /\ pc[p] = "updatePersonalInformations_update"
    /\ users' = update(loc[p].id, loc[p].fields)
    /\ Finish(p, "ok", <<>>)

(***************************************************************************)
(* The clock.                                                              *)
(***************************************************************************)
Tick ==
    /\ now < StartTime + MaxTicks
    /\ now' = now + 1
    /\ done' = NothingEnded
    /\ UNCHANGED <<users, pc, loc, calls>>

(***************************************************************************)
(* Specification.  A run starts from a store the operations produce within *)
(* the first minute: the empty store, or one account that signed up and    *)
(* then requested a verification email, a magic link and a password reset. *)
(***************************************************************************)
SignedUp == NewUser(1, signup_fields("a@b.com", "Password123!"))

AllPending ==
    Merge(Merge(Merge(SignedUp,
        sendEmailAddressVerificationEmail_fields("111")),
        sendSendMagicLinkEmail_fields("t1")),
        sendResetPasswordEmail_fields("t1"))

Seeds == {<<>>, <<AllPending>>}

Init ==
    /\ now = StartTime
    /\ users \in Seeds
    /\ pc = [p \in Procs |-> "idle"]
    /\ loc = [p \in Procs |-> NoCall]
    /\ done = NothingEnded
    /\ calls = 0

Next ==
    \/ Tick
    \/ \E p \in Procs :
        \/ \E email \in Emails, password \in Passwords : login(p, email, password)
        \/ login_validatePassword(p)
        \/ login_update(p)
        \/ \E email \in Emails, password \in Passwords : signup(p, email, password)
        \/ signup_hasPasswordBeenPwned(p)
        \/ signup_hashPassword(p)
        \/ signup_create(p)
        \/ \E email \in Emails, checkBeforeSend \in BOOLEAN :
              sendEmailAddressVerificationEmail(p, email, checkBeforeSend)
        \/ \E token \in PinTokens :
              sendEmailAddressVerificationEmail_generatePinToken(p, token)
        \/ sendEmailAddressVerificationEmail_update(p)
        \/ \E delivery \in MailOutcomes :
              sendEmailAddressVerificationEmail_sendMail(p, delivery)
        \/ \E email \in Emails, token \in PinTokens \cup {"", Null} :
              verifyEmail(p, email, token)
        \/ verifyEmail_update(p)
        \/ \E email \in Emails : updateEmailAddressVerificationStatus(p, email)
        \/ updateEmailAddressVerificationStatus_update(p)
        \/ \E email \in Emails, host \in Hosts :
              sendSendMagicLinkEmail(p, email, host)
        \/ sendSendMagicLinkEmail_create(p)
        \/ \E token \in Tokens : sendSendMagicLinkEmail_generateToken(p, token)
        \/ sendSendMagicLinkEmail_update(p)
        \/ \E delivery \in MailOutcomes :
              sendSendMagicLinkEmail_sendMail(p, delivery)
        \/ \E token \in Tokens \cup {""} : loginWithMagicLink(p, token)
        \/ loginWithMagicLink_update(p)
        \/ \E email \in Emails, host \in Hosts :
              sendResetPasswordEmail(p, email, host)
        \/ \E token \in Tokens : sendResetPasswordEmail_generateToken(p, token)
        \/ sendResetPasswordEmail_update(p)
        \/ \E delivery \in MailOutcomes :
              sendResetPasswordEmail_sendMail(p, delivery)
        \/ \E token \in Tokens \cup {""}, password \in Passwords :
              changePassword(p, token, password)
        \/ changePassword_hasPasswordBeenPwned(p)
        \/ changePassword_hashPassword(p)
        \/ changePassword_update(p)
        \/ \E userId \in Ids, profile \in Profiles :
              updatePersonalInformations(p, userId, profile)
        \/ updatePersonalInformations_update(p)

Spec == Init /\ [][Next]_vars

\* Operations one after another: the second caller never starts (a new
\* operation goes to the lowest idle caller, so it starts only during another
\* operation).
Sequential == pc[2] = "idle"

SpecSeq == Init /\ [][Next /\ Sequential']_vars

(***************************************************************************)
(* Properties.                                                             *)
(***************************************************************************)
Pairs == {<<"verify_email_token", "verify_email_sent_at">>,
          <<"magic_link_token", "magic_link_sent_at">>,
          <<"reset_password_token", "reset_password_sent_at">>}

ConsumeOps == {"verifyEmail", "loginWithMagicLink", "changePassword"}

\* C1: in every reachable state, for every user and each of the three token
\* families, the token and its sent_at timestamp are both null or both set.
TokenPairsBothNullOrBothSet ==
    \A i \in Ids : \A pair \in Pairs :
        (users[i][pair[1]] = Null) <=> (users[i][pair[2]] = NoDate)

\* C1 witness: a consume just cleared one pair of a row whose other pairs
\* are still set.
PairClearedNextToPendingPairs ==
    /\ done.op = "loginWithMagicLink"
    /\ done.ret = "ok"
    /\ users[done.id].magic_link_token = Null
    /\ users[done.id].verify_email_token # Null
    /\ users[done.id].reset_password_token # Null

\* C2: whatever step clears a token of a row (the consume's single update)
\* clears its sent_at and leaves email_verified true in the same step: there
\* is no state with the token cleared and the email not yet verified.
ConsumeClearsPairAndVerifiesInOneStep ==
    [][\A i \in Ids : \A pair \in Pairs :
          (users[i][pair[1]] # Null /\ users'[i][pair[1]] = Null)
          => /\ users'[i][pair[2]] = NoDate
             /\ users'[i].email_verified
             /\ done'.op \in ConsumeOps /\ done'.ret = "ok" /\ done'.id = i
             /\ \A j \in Ids \ {i} : users'[j] = users[j]]_vars

\* C2 witness: changePassword consumed the reset token of an unverified row.
ResetTokenConsumedOnUnverifiedRow ==
    /\ done.op = "changePassword"
    /\ done.ret = "ok"
    /\ ~done.before.email_verified
    /\ done.before.reset_password_token # Null
    /\ users[done.id].reset_password_token = Null
    /\ users[done.id].email_verified

\* C3: operations one after another: the step that ends a successful consume
\* leaves the presented token rejected by a lookup of the same family, with
\* InvalidTokenError (InvalidMagicLinkError for magic link), and a rejected
\* token becomes acceptable again only by the step of an issue operation
\* that stores it.
TokenIsSingleUse ==
    [][/\ \A p \in Procs : \A t \in Tokens :
            /\ (pc[p] = "loginWithMagicLink_update" /\ pc'[p] = "idle"
                /\ loc[p].token = t)
               => (loginWithMagicLink_lookup(t))' = "InvalidMagicLinkError"
            /\ (pc[p] = "changePassword_update" /\ pc'[p] = "idle"
                /\ loc[p].token = t)
               => \A pw \in Passwords :
                     (changePassword_lookup(t, pw))' = "InvalidTokenError"
       /\ \A p \in Procs : \A t \in PinTokens : \A email \in Emails :
            (pc[p] = "verifyEmail_update" /\ pc'[p] = "idle"
             /\ loc[p].token = t /\ users[loc[p].id].email = email)
            => (verifyEmail_lookup(email, t))' = "InvalidTokenError"
       /\ \A t \in Tokens :
            /\ (loginWithMagicLink_lookup(t) # "await"
                /\ (loginWithMagicLink_lookup(t))' = "await")
               => \E p \in Procs :
                     /\ pc[p] = "sendSendMagicLinkEmail_update"
                     /\ users'[loc[p].id].magic_link_token = t
            /\ \A pw \in Passwords :
                 (changePassword_lookup(t, pw) \in {"InvalidTokenError"}
                  /\ (changePassword_lookup(t, pw))' # "InvalidTokenError")
                 => \E p \in Procs :
                       /\ pc[p] = "sendResetPasswordEmail_update"
                       /\ users'[loc[p].id].reset_password_token = t
       /\ \A t \in PinTokens : \A email \in Emails :
            (verifyEmail_lookup(email, t) = "InvalidTokenError"
             /\ (verifyEmail_lookup(email, t))' = "await")
            => \E p \in Procs :
                  /\ pc[p] = "sendEmailAddressVerificationEmail_update"
                  /\ users'[loc[p].id].verify_email_token = t
      ]_vars

\* C3 witness: a consume has just succeeded and presenting its token again
\* is rejected.
ConsumedTokenIsRejected ==
    /\ done.op = "loginWithMagicLink"
    /\ done.ret = "ok"
    /\ done.token = done.before.magic_link_token
    /\ loginWithMagicLink_lookup(done.token) = "InvalidMagicLinkError"

\* C4: of two concurrent consumes that looked up the same pending token at
\* most one succeeds: the update of a consume is never applied to a row
\* whose token another consume has cleared since the lookup.
TokenNeverConsumedTwice ==
    [][\A p \in Procs :
          /\ (pc[p] = "loginWithMagicLink_update" /\ pc'[p] = "idle")
             => users[loc[p].id].magic_link_token # Null
          /\ (pc[p] = "changePassword_update" /\ pc'[p] = "idle")
             => users[loc[p].id].reset_password_token # Null
          /\ (pc[p] = "verifyEmail_update" /\ pc'[p] = "idle")
             => users[loc[p].id].verify_email_token # Null
      ]_vars

\* C5: login fails with InvalidCredentialsError whether the account is
\* missing or the password is wrong, sendResetPasswordEmail ends with true
\* whether or not the account exists, and with no account neither changes
\* the store nor sends a notification.
NonEnumeration ==
    [][/\ (done'.op = "login" /\ done'.ret # "ok")
          => done'.ret = "InvalidCredentialsError"
       /\ done'.op = "sendResetPasswordEmail" => done'.ret = "true"
       /\ (done'.op \in {"login", "sendResetPasswordEmail"} /\ done'.id = 0)
          => (users' = users /\ done'.mail = <<>>)
      ]_vars

\* C6: every step that ends a successful login raises the sign_in_count of
\* its row by exactly one, and no other step changes a sign_in_count.
SignInCountCountsLogins ==
    [][\A i \in Ids :
          users'[i].sign_in_count =
             users[i].sign_in_count
               + Cardinality({p \in Procs : /\ pc[p] = "login_update"
                                            /\ pc'[p] = "idle"
                                            /\ loc[p].id = i})
      ]_vars

\* Caller p starts operation `op` in this step: every Start step counts a
\* call and either ends the operation or leaves its frame in loc[p].
Called(p, op) ==
    /\ calls' # calls
    /\ pc[p] = "idle"
    /\ done'.op = op \/ (pc'[p] # "idle" /\ loc'[p].op = op)

\* A verify-email token of the row is pending and within its validity window.
VerifyTokenPendingAndValid(user) ==
    /\ user.verify_email_token # Null
    /\ user.verify_email_sent_at # NoDate
    /\ now - user.verify_email_sent_at
          <= VERIFY_EMAIL_TOKEN_EXPIRATION_DURATION_IN_MINUTES

\* The lookup step of sendEmailAddressVerificationEmail for an existing,
\* unverified user: "not sent", nothing stored and nothing mailed exactly
\* when checkBeforeSend is set and a token is pending and valid; a token is
\* generated in every other case.
ReissueGuard ==
    \A p \in Procs :
        Called(p, "sendEmailAddressVerificationEmail")
        => \A email \in Emails : \A checkBeforeSend \in BOOLEAN :
             LET user == findByEmail(email)
             IN  (/\ ~isEmpty(user)
                  /\ ~user.email_verified
                  /\ sendEmailAddressVerificationEmail(p, email,
                                                       checkBeforeSend))
                 => IF checkBeforeSend /\ VerifyTokenPendingAndValid(user)
                    THEN /\ done'.op = "sendEmailAddressVerificationEmail"
                         /\ done'.ret = "false"
                         /\ done'.mail = <<>>
                         /\ users' = users
                    ELSE /\ pc'[p] =
                           "sendEmailAddressVerificationEmail_generatePinToken"
                         /\ done'.op = "none"
                         /\ users' = users

\* When generatePinToken answers, sendEmailAddressVerificationEmail calls
\* update with the generated token and sent_at = now, writing nothing yet;
\* the update step stores that pair and goes on to sendMail; the sendMail
\* step writes nothing and has made one call, with the token the update
\* stored, in its readable form, to the email the lookup read.
ReissueStores(p) ==
    /\ (/\ pc[p] = "sendEmailAddressVerificationEmail_generatePinToken"
        /\ pc'[p] # pc[p])
       => /\ users' = users
          /\ pc'[p] = "sendEmailAddressVerificationEmail_update"
          /\ loc'[p].verify_email_token \in PinTokens
          /\ loc'[p].fields.verify_email_token = loc'[p].verify_email_token
          /\ loc'[p].fields.verify_email_sent_at = now
          /\ done'.op = "none"
    /\ (pc[p] = "sendEmailAddressVerificationEmail_update" /\ pc'[p] # pc[p])
       => LET id == loc[p].id
          IN  /\ users'[id].verify_email_token = loc[p].verify_email_token
              /\ users'[id].verify_email_sent_at
                    = loc[p].fields.verify_email_sent_at
              /\ pc'[p] = "sendEmailAddressVerificationEmail_sendMail"
              /\ loc'[p] = loc[p]
              /\ done'.op = "none"
    /\ (pc[p] = "sendEmailAddressVerificationEmail_sendMail" /\ pc'[p] # pc[p])
       => /\ pc'[p] = "idle"
          /\ users' = users
          /\ done'.op = "sendEmailAddressVerificationEmail"
          /\ Len(done'.mail) = 1
          /\ done'.mail[1].token
                = readable_verify_email_token(loc[p].verify_email_token)
          /\ done'.mail[1].to = users[loc[p].id].email
          /\ done'.mail[1].to = loc[p].user.email

\* C7: for an existing, unverified user the operation returns false,
\* storing and sending nothing, exactly when checkBeforeSend is set and a
\* token is pending and valid; otherwise it stores a new token with
\* sent_at = now (the clock when update is called), calls sendMail exactly
\* once and returns true.
ReissuePolicy ==
    [][/\ ReissueGuard
       /\ \A p \in Procs :
            /\ ReissueStores(p)
            /\ (pc[p] = "sendEmailAddressVerificationEmail_sendMail"
                /\ pc'[p] = "idle")
               => done'.ret = "true"
      ]_vars

\* C8: loginWithMagicLink('') ends with InvalidMagicLinkError and
\* changePassword('', password) with InvalidTokenError in every state, rows
\* with a null token included; the step changes no row and starts no update.
EmptyTokenIsRejected ==
    [][\A p \in Procs :
          /\ Called(p, "loginWithMagicLink")
             => (loginWithMagicLink(p, "")
                 => /\ done'.ret = "InvalidMagicLinkError"
                    /\ done'.id = 0
                    /\ users' = users /\ pc' = pc)
          /\ Called(p, "changePassword")
             => \A password \in Passwords :
                  changePassword(p, "", password)
                  => /\ done'.ret = "InvalidTokenError"
                     /\ done'.id = 0
                     /\ users' = users /\ pc' = pc
      ]_vars

\* C8 witness: loginWithMagicLink('') was rejected while a row has a null
\* magic_link_token.
EmptyMagicLinkRejectedNextToNullToken ==
    /\ done.op = "loginWithMagicLink"
    /\ done.token = ""
    /\ done.ret = "InvalidMagicLinkError"
    /\ \E i \in Ids : users[i].magic_link_token = Null

\* The reset token is the pending one of some row and has not expired.
ResetTokenPendingAndValid(token) ==
    \E i \in Ids :
        /\ users[i].reset_password_token = token
        /\ users[i].reset_password_sent_at # NoDate
        /\ now - users[i].reset_password_sent_at
              <= RESET_PASSWORD_TOKEN_EXPIRATION_DURATION_IN_MINUTES

\* C9: changePassword with a valid, unexpired token fails with
\* WeakPasswordError, in its lookup step, when the policy rejects the
\* password; when the policy passes it awaits the breach check and fails
\* with LeakedPasswordError when that reports the password; neither step
\* changes a row nor calls update, so the operation leaves the token pair
\* as it found it; an accepted password is hashed before update is called.
RejectedPasswordChangesNothing ==
    [][\A p \in Procs :
          /\ Called(p, "changePassword")
             => \A token \in Tokens : \A password \in Passwords :
                  (/\ ResetTokenPendingAndValid(token)
                   /\ changePassword(p, token, password))
                  => LET user == findByResetPasswordToken(token)
                     IN  /\ users' = users
                         /\ IF ~isPasswordSecure(password, user.email)
                            THEN /\ done'.ret = "WeakPasswordError"
                                 /\ pc' = pc
                            ELSE /\ done'.op = "none"
                                 /\ pc'[p]
                                      = "changePassword_hasPasswordBeenPwned"
                                 /\ loc'[p].password = password
          /\ (pc[p] = "changePassword_hasPasswordBeenPwned"
              /\ pc'[p] # pc[p])
             => /\ users' = users
                /\ IF hasPasswordBeenPwned(loc[p].password)
                   THEN /\ done'.ret = "LeakedPasswordError"
                        /\ pc'[p] = "idle"
                   ELSE /\ done'.op = "none"
                        /\ pc'[p] = "changePassword_hashPassword"
                        /\ loc'[p] = loc[p]
          /\ (pc[p] = "changePassword_hashPassword" /\ pc'[p] # pc[p])
             => /\ users' = users
                /\ ~hasPasswordBeenPwned(loc[p].password)
                /\ pc'[p] = "changePassword_update"
      ]_vars

\* C9 witness: changePassword failed with WeakPasswordError on a valid
\* token, and the row, its password and its token are as before.
WeakPasswordLeftTokenPending ==
    /\ done.op = "changePassword"
    /\ done.ret = "WeakPasswordError"
    /\ users[done.id] = done.before
    /\ done.token = users[done.id].reset_password_token
    /\ ResetTokenPendingAndValid(done.token)

\* C10: the update of sendSendMagicLinkEmail (resp. sendResetPasswordEmail)
\* that stores t2 over a pending, distinct t1 leaves t1 rejected with
\* InvalidMagicLinkError (resp. InvalidTokenError): the only token that a
\* consume accepts for that row is t2, for as long as the duration counted
\* from the call of the update has not elapsed.
ReissueInvalidatesPrevious ==
    [][\A p \in Procs : \A t1 \in Tokens : \A t2 \in Tokens \ {t1} :
          /\ (/\ pc[p] = "sendSendMagicLinkEmail_update" /\ pc'[p] # pc[p]
              /\ users[loc[p].id].magic_link_token = t1
              /\ loc'[p].magicLinkToken = t2)
             => /\ (loginWithMagicLink_lookup(t1))' = "InvalidMagicLinkError"
                /\ now - loc[p].fields.magic_link_sent_at
                      <= MAGIC_LINK_TOKEN_EXPIRATION_DURATION_IN_MINUTES
                   => (loginWithMagicLink_lookup(t2))' = "await"
                /\ (findByMagicLinkToken(t2).id)' = loc[p].id
          /\ (/\ pc[p] = "sendResetPasswordEmail_update" /\ pc'[p] # pc[p]
              /\ users[loc[p].id].reset_password_token = t1
              /\ loc'[p].resetPasswordToken = t2)
             => /\ \A pw \in Passwords :
                     (changePassword_lookup(t1, pw))' = "InvalidTokenError"
                /\ now - loc[p].fields.reset_password_sent_at
                      <= RESET_PASSWORD_TOKEN_EXPIRATION_DURATION_IN_MINUTES
                   => (changePassword_lookup(t2, "Password123!"))' = "await"
                /\ (findByResetPasswordToken(t2).id)' = loc[p].id
      ]_vars

\* C10 witness: the update of a magic-link request has just stored its token
\* over the different token that was pending when the request read the row;
\* the old token is rejected and the new one accepted.
MagicLinkReissuedOverPending ==
    \E p \in Procs :
        /\ pc[p] = "sendSendMagicLinkEmail_sendMail"
        /\ loc[p].user.magic_link_token \in Tokens
        /\ users[loc[p].id].magic_link_token = loc[p].magicLinkToken
        /\ loc[p].magicLinkToken # loc[p].user.magic_link_token
        /\ loginWithMagicLink_lookup(loc[p].user.magic_link_token)
              = "InvalidMagicLinkError"
        /\ loginWithMagicLink_lookup(loc[p].magicLinkToken) = "await"

\* Some record exists for the email.
Registered(email) == \E i \in Ids : users[i].email = email

Elapsed(sentAt) == now - sentAt

\* C13: an operation fails with the sink's error only in the sendMail step
\* of sendEmailAddressVerificationEmail, sendSendMagicLinkEmail or
\* sendResetPasswordEmail, after its update; that step writes nothing, so
\* the token and sent_at the update wrote stay stored: as long as no other
\* operation has replaced or consumed the token and it is within its
\* duration, a consume presenting it is accepted, and an issue call for the
\* same email goes on to generate a token again (for the verify-email
\* family: with checkBeforeSend = false, as long as the email has not been
\* verified).
MailFailureIsNotRolledBack ==
    [][\A p \in Procs :
          (pc[p] # "idle" /\ pc'[p] = "idle" /\ done'.ret = "MailError")
          => LET id == loc[p].id
             IN  /\ pc[p] \in {"sendEmailAddressVerificationEmail_sendMail",
                               "sendSendMagicLinkEmail_sendMail",
                               "sendResetPasswordEmail_sendMail"}
                 /\ users' = users
                 /\ Len(done'.mail) = 1
                 /\ (/\ pc[p] = "sendSendMagicLinkEmail_sendMail"
                     /\ users[id].magic_link_token = loc[p].magicLinkToken)
                    => /\ done'.mail[1].token = users'[id].magic_link_token
                       /\ Elapsed(users[id].magic_link_sent_at)
                             <= MAGIC_LINK_TOKEN_EXPIRATION_DURATION_IN_MINUTES
                          => /\ (loginWithMagicLink_lookup(
                                     done.mail[1].token))' = "await"
                             /\ (findByMagicLinkToken(
                                     done.mail[1].token).id)' = id
                       /\ \A email \in Emails :
                            loc[p].user.email = email
                            => (sendSendMagicLinkEmail_lookup(email))'
                                  = "sendSendMagicLinkEmail_generateToken"
                 /\ (/\ pc[p] = "sendResetPasswordEmail_sendMail"
                     /\ users[id].reset_password_token
                           = loc[p].resetPasswordToken)
                    => /\ done'.mail[1].token = users'[id].reset_password_token
                       /\ Elapsed(users[id].reset_password_sent_at)
                             <= RESET_PASSWORD_TOKEN_EXPIRATION_DURATION_IN_MINUTES
                          => /\ (changePassword_lookup(
                                     done.mail[1].token, "Password123!"))'
                                   = "await"
                             /\ (findByResetPasswordToken(
                                     done.mail[1].token).id)' = id
                       /\ \A email \in Emails :
                            loc[p].user.email = email
                            => (sendResetPasswordEmail_lookup(email))'
                                  = "await"
                 /\ (/\ pc[p] = "sendEmailAddressVerificationEmail_sendMail"
                     /\ users[id].verify_email_token
                           = loc[p].verify_email_token)
                    => /\ done'.mail[1].token
                             = readable_verify_email_token(
                                   users'[id].verify_email_token)
                       /\ \A email \in Emails : \A t \in PinTokens :
                            (/\ loc[p].user.email = email
                             /\ loc[p].verify_email_token = t)
                            => /\ Elapsed(users[id].verify_email_sent_at)
                                     <= VERIFY_EMAIL_TOKEN_EXPIRATION_DURATION_IN_MINUTES
                                  => (verifyEmail_lookup(email, t))' = "await"
                               /\ ~users'[id].email_verified
                                  => (sendEmailAddressVerificationEmail_lookup(
                                          email, FALSE))' = "await"
      ]_vars

\* C13 witness: sendResetPasswordEmail failed on a rejected sendMail, a
\* minute after its update stored the token; the token is still stored and
\* is accepted by changePassword.
ResetTokenStoredDespiteMailFailure ==
    /\ done.op = "sendResetPasswordEmail"
    /\ done.ret = "MailError"
    /\ users[done.id] = done.before
    /\ users[done.id].reset_password_token = done.mail[1].token
    /\ users[done.id].reset_password_sent_at = now - 1
    /\ changePassword_lookup(done.mail[1].token, "Password123!") = "await"

\* The email of the row was verified longer ago than the renewal window.
VerificationTooOld(user) ==
    /\ user.email_verified
    /\ user.email_verified_at # NoDate
    /\ now - user.email_verified_at
          > MAX_DURATION_BETWEEN_TWO_EMAIL_ADDRESS_VERIFICATION_IN_MINUTES

\* C14: updateEmailAddressVerificationStatus on an existing user goes on to
\* its update, which sets email_verified false and returns
\* needs_email_verification_renewal = true, exactly when the row it read has
\* email_verified true and email_verified_at older than the renewal window;
\* otherwise it writes nothing and returns false.  Right after it returned
\* true, sendEmailAddressVerificationEmail for that email does not fail with
\* EmailVerifiedAlreadyError.
RenewalExactlyWhenVerificationTooOld ==
    [][/\ \A i \in Ids :
            (users[i].email_verified /\ ~users'[i].email_verified)
            => /\ done'.op = "updateEmailAddressVerificationStatus"
               /\ done'.ret = "needs_renewal"
               /\ done'.id = i
       /\ \A p \in Procs :
          /\ Called(p, "updateEmailAddressVerificationStatus")
             => \A email \in Emails :
                  (/\ Registered(email)
                   /\ updateEmailAddressVerificationStatus(p, email))
                  => /\ users' = users
                     /\ IF VerificationTooOld(findByEmail(email))
                        THEN /\ pc'[p]
                               = "updateEmailAddressVerificationStatus_update"
                             /\ done'.op = "none"
                        ELSE /\ done'.ret = "no_renewal"
                             /\ pc' = pc
          /\ (pc[p] = "updateEmailAddressVerificationStatus_update"
              /\ pc'[p] = "idle")
             => /\ done'.ret = "needs_renewal"
                /\ users' = [users EXCEPT ![loc[p].id].email_verified = FALSE]
                /\ \A email \in Emails : \A checkBeforeSend \in BOOLEAN :
                     users[loc[p].id].email = email
                     => (sendEmailAddressVerificationEmail_lookup(
                             email, checkBeforeSend))'
                           # "EmailVerifiedAlreadyError"
      ]_vars

\* C14 witness: the status update has just flipped a verified email, whose
\* verification was older than the window, back to unverified, and a
\* verification email can be requested.
RenewalRequested ==
    /\ done.op = "updateEmailAddressVerificationStatus"
    /\ done.ret = "needs_renewal"
    /\ done.before.email_verified
    /\ now - done.before.email_verified_at
          > MAX_DURATION_BETWEEN_TWO_EMAIL_ADDRESS_VERIFICATION_IN_MINUTES
    /\ ~users[done.id].email_verified
    /\ sendEmailAddressVerificationEmail_lookup(users[done.id].email, FALSE)
          = "await"

\* C15: sendEmailAddressVerificationEmail fails with UserNotFoundError when
\* no record exists for the email and with EmailVerifiedAlreadyError when the
\* record's email_verified is true, for either value of checkBeforeSend; the
\* failing call stores nothing, sends nothing and starts no update.
VerificationEmailRefused ==
    [][\A p \in Procs :
          Called(p, "sendEmailAddressVerificationEmail")
          => \A email \in Emails : \A checkBeforeSend \in BOOLEAN :
               sendEmailAddressVerificationEmail(p, email, checkBeforeSend)
               => /\ ~Registered(email)
                     => /\ done'.ret = "UserNotFoundError"
                        /\ done'.mail = <<>>
                        /\ users' = users /\ pc' = pc
                  /\ (\E i \in Ids : /\ users[i].email = email
                                     /\ users[i].email_verified)
                     => /\ done'.ret = "EmailVerifiedAlreadyError"
                        /\ done'.mail = <<>>
                        /\ users' = users /\ pc' = pc
      ]_vars

\* C15 witness: a verification email was refused with
\* EmailVerifiedAlreadyError for a verified email that still has a pending
\* verify-email token, and the row is untouched.
VerificationEmailRefusedForVerified ==
    /\ done.op = "sendEmailAddressVerificationEmail"
    /\ done.ret = "EmailVerifiedAlreadyError"
    /\ done.before.email_verified
    /\ done.before.verify_email_token # Null
    /\ users[done.id] = done.before
    /\ done.mail = <<>>

\* The checks verifyEmail makes before it calls isExpired (user.ts 167-173):
\* no record for the email, or the stored token is not the presented one.
verifyEmail_rejectedBeforeExpiryTest(email, token) ==
    LET user == findByEmail(email)
    IN  isEmpty(user) \/ user.verify_email_token # token

\* C16: verifyEmail on a user whose stored verify_email_token is null fails
\* with InvalidTokenError for every presented token, null and empty
\* included, and changes no row; the call is rejected before the expiry
\* test, so isExpired is not what rejects a null token / timestamp pair.
NothingPendingRejectedWithoutExpiryTest ==
    [][\A p \in Procs :
          Called(p, "verifyEmail")
          => \A email \in Emails : \A token \in PinTokens \cup {"", Null} :
               (/\ Registered(email)
                /\ findByEmail(email).verify_email_token = Null
                /\ verifyEmail(p, email, token))
               => /\ done'.ret = "InvalidTokenError"
                  /\ users' = users /\ pc' = pc
                  /\ verifyEmail_rejectedBeforeExpiryTest(email, token)
      ]_vars

ConsumeWithinDuration(p) ==
    /\ Called(p, "loginWithMagicLink")
       => \A t \in Tokens : \A i \in Ids :
            (/\ users[i].magic_link_token = t
             /\ loginWithMagicLink(p, t))
            => /\ users' = users
               /\ IF Elapsed(users[i].magic_link_sent_at)
                        <= MAGIC_LINK_TOKEN_EXPIRATION_DURATION_IN_MINUTES
                  THEN /\ pc'[p] = "loginWithMagicLink_update"
                       /\ loc'[p].id = i
                  ELSE /\ done'.ret = "InvalidMagicLinkError"
                       /\ pc' = pc
    /\ Called(p, "changePassword")
       => \A t \in Tokens : \A i \in Ids :
            (/\ users[i].reset_password_token = t
             /\ changePassword(p, t, "Password123!"))
            => /\ users' = users
               /\ IF Elapsed(users[i].reset_password_sent_at)
                        <= RESET_PASSWORD_TOKEN_EXPIRATION_DURATION_IN_MINUTES
                  THEN /\ pc'[p] = "changePassword_hasPasswordBeenPwned"
                       /\ loc'[p].id = i
                  ELSE /\ done'.ret = "InvalidTokenError"
                       /\ pc' = pc
    /\ (/\ pc[p] = "changePassword_hasPasswordBeenPwned"
        /\ pc'[p] # pc[p]
        /\ loc[p].password = "Password123!")
       => /\ users' = users
          /\ pc'[p] = "changePassword_hashPassword"
          /\ loc'[p] = loc[p]
    /\ (pc[p] = "changePassword_hashPassword" /\ pc'[p] # pc[p])
       => /\ users' = users
          /\ pc'[p] = "changePassword_update"
          /\ loc'[p].id = loc[p].id
    /\ Called(p, "verifyEmail")
       => \A t \in PinTokens : \A email \in Emails :
            (/\ Registered(email)
             /\ findByEmail(email).verify_email_token = t
             /\ verifyEmail(p, email, t))
            => /\ users' = users
               /\ IF Elapsed(findByEmail(email).verify_email_sent_at)
                        <= VERIFY_EMAIL_TOKEN_EXPIRATION_DURATION_IN_MINUTES
                  THEN /\ pc'[p] = "verifyEmail_update"
                       /\ loc'[p].id = findByEmail(email).id
                  ELSE /\ done'.ret = "InvalidTokenError"
                       /\ pc' = pc
    /\ (pc[p] \in {"loginWithMagicLink_update", "changePassword_update",
                   "verifyEmail_update"}
        /\ pc'[p] = "idle")
       => /\ done'.ret = "ok"
          /\ pc[p] = "loginWithMagicLink_update"
             => users'[loc[p].id].magic_link_token = Null
          /\ pc[p] = "changePassword_update"
             => users'[loc[p].id].reset_password_token = Null
          /\ pc[p] = "verifyEmail_update"
             => users'[loc[p].id].verify_email_token = Null

\* An issue operation that generated its token calls update with
\* sent_at = now; that update leaves the family pending with the sent_at it
\* was called with, and the operation goes on to its sendMail.
IssueMakesPending(p) ==
    /\ (pc[p] = "sendSendMagicLinkEmail_generateToken" /\ pc'[p] # pc[p])
       => /\ users' = users
          /\ pc'[p] = "sendSendMagicLinkEmail_update"
          /\ loc'[p].id = loc[p].id
          /\ loc'[p].fields.magic_link_sent_at = now
    /\ (pc[p] = "sendSendMagicLinkEmail_update" /\ pc'[p] # pc[p])
       => /\ users'[loc[p].id].magic_link_token \in Tokens
          /\ users'[loc[p].id].magic_link_sent_at
                = loc[p].fields.magic_link_sent_at
          /\ pc'[p] = "sendSendMagicLinkEmail_sendMail"
    /\ (pc[p] = "sendResetPasswordEmail_generateToken" /\ pc'[p] # pc[p])
       => /\ users' = users
          /\ pc'[p] = "sendResetPasswordEmail_update"
          /\ loc'[p].id = loc[p].id
          /\ loc'[p].fields.reset_password_sent_at = now
    /\ (pc[p] = "sendResetPasswordEmail_update" /\ pc'[p] # pc[p])
       => /\ users'[loc[p].id].reset_password_token \in Tokens
          /\ users'[loc[p].id].reset_password_sent_at
                = loc[p].fields.reset_password_sent_at
          /\ pc'[p] = "sendResetPasswordEmail_sendMail"
    /\ (/\ pc[p] = "sendEmailAddressVerificationEmail_generatePinToken"
        /\ pc'[p] # pc[p])
       => /\ users' = users
          /\ pc'[p] = "sendEmailAddressVerificationEmail_update"
          /\ loc'[p].id = loc[p].id
          /\ loc'[p].fields.verify_email_sent_at = now
    /\ (pc[p] = "sendEmailAddressVerificationEmail_update" /\ pc'[p] # pc[p])
       => /\ users'[loc[p].id].verify_email_token \in PinTokens
          /\ users'[loc[p].id].verify_email_sent_at
                = loc[p].fields.verify_email_sent_at
          /\ pc'[p] = "sendEmailAddressVerificationEmail_sendMail"

\* An issue call for a row whose pending magic-link (reset-password) token
\* has expired goes on to generate a token.
ReissueFromExpired(p) ==
    /\ Called(p, "sendSendMagicLinkEmail")
       => \A email \in Emails : \A host \in Hosts :
            LET user == findByEmail(email)
            IN  (/\ Registered(email)
                 /\ user.magic_link_token # Null
                 /\ Elapsed(user.magic_link_sent_at)
                       > MAGIC_LINK_TOKEN_EXPIRATION_DURATION_IN_MINUTES
                 /\ sendSendMagicLinkEmail(p, email, host))
                => /\ pc'[p] = "sendSendMagicLinkEmail_generateToken"
                   /\ loc'[p].id = user.id
    /\ Called(p, "sendResetPasswordEmail")
       => \A email \in Emails : \A host \in Hosts :
            LET user == findByEmail(email)
            IN  (/\ Registered(email)
                 /\ user.reset_password_token # Null
                 /\ Elapsed(user.reset_password_sent_at)
                       > RESET_PASSWORD_TOKEN_EXPIRATION_DURATION_IN_MINUTES
                 /\ sendResetPasswordEmail(p, email, host))
                => /\ pc'[p] = "sendResetPasswordEmail_generateToken"
                   /\ loc'[p].id = user.id

\* A verification-email call was made for a row whose pending verify-email
\* token has expired.
VerifyReissueFromExpired(p, email, checkBeforeSend) ==
    /\ Registered(email)
    /\ findByEmail(email).verify_email_token # Null
    /\ Elapsed(findByEmail(email).verify_email_sent_at)
          > VERIFY_EMAIL_TOKEN_EXPIRATION_DURATION_IN_MINUTES
    /\ sendEmailAddressVerificationEmail(p, email, checkBeforeSend)

\* C18: a consume presenting the currently pending token succeeds if and
\* only if the time elapsed since its sent_at is at most the family's
\* duration D (success at exactly D, the invalid-token error at any time
\* greater than D); from the expired state a new issue call always returns
\* the family to pending with a fresh sent_at (the clock when its update is
\* called).
TokenLifecycle ==
    [][\A p \in Procs :
          /\ ConsumeWithinDuration(p)
          /\ IssueMakesPending(p)
          /\ ReissueFromExpired(p)
          /\ Called(p, "sendEmailAddressVerificationEmail")
             => \A email \in Emails : \A checkBeforeSend \in BOOLEAN :
                  VerifyReissueFromExpired(p, email, checkBeforeSend)
                  => /\ pc'[p]
                          = "sendEmailAddressVerificationEmail_generatePinToken"
                     /\ loc'[p].id = findByEmail(email).id
      ]_vars

\* The step ended an operation with the error `kind`, wrote no row, sent no
\* notification and started no update.
FailsWith(kind) ==
    /\ done'.ret = kind
    /\ done'.mail = <<>>
    /\ users' = users
    /\ pc' = pc

\* loginWithMagicLink and changePassword presenting a token that no record
\* holds, or whose record's sent_at is older than the duration, fail with
\* InvalidMagicLinkError and InvalidTokenError and change nothing.
FailedTokenLookupCommitsNothing(p) ==
    /\ Called(p, "loginWithMagicLink")
       => \A t \in Tokens :
            (/\ \A i \in Ids :
                  users[i].magic_link_token = t
                  => Elapsed(users[i].magic_link_sent_at)
                        > MAGIC_LINK_TOKEN_EXPIRATION_DURATION_IN_MINUTES
             /\ loginWithMagicLink(p, t))
            => FailsWith("InvalidMagicLinkError")
    /\ Called(p, "changePassword")
       => \A t \in Tokens : \A password \in Passwords :
            (/\ \A i \in Ids :
                  users[i].reset_password_token = t
                  => Elapsed(users[i].reset_password_sent_at)
                        > RESET_PASSWORD_TOKEN_EXPIRATION_DURATION_IN_MINUTES
             /\ changePassword(p, t, password))
            => FailsWith("InvalidTokenError")

\* verifyEmail for a registered email, presenting a token that is not the
\* stored one, or the stored one after its duration.
VerifyMismatchOrExpired(p, email, token) ==
    /\ Registered(email)
    /\ \/ findByEmail(email).verify_email_token # token
       \/ /\ findByEmail(email).verify_email_sent_at # NoDate
          /\ Elapsed(findByEmail(email).verify_email_sent_at)
                > VERIFY_EMAIL_TOKEN_EXPIRATION_DURATION_IN_MINUTES
    /\ verifyEmail(p, email, token)

\* C19 (as amended): a consume that fails because no record matches, the
\* token mismatches or the token is expired leaves every record as it was
\* and sends nothing; the error is InvalidMagicLinkError for magic link and
\* InvalidTokenError for reset-password and verify-email, the same for
\* mismatch and expiry, except that verifyEmail for an email with no record
\* fails with UserNotFoundError.
FailedConsumeCommitsNothing ==
    [][\A p \in Procs :
          /\ FailedTokenLookupCommitsNothing(p)
          /\ Called(p, "verifyEmail")
             => \A email \in Emails : \A token \in PinTokens \cup {""} :
                  /\ VerifyMismatchOrExpired(p, email, token)
                     => FailsWith("InvalidTokenError")
                  /\ (~Registered(email) /\ verifyEmail(p, email, token))
                     => FailsWith("UserNotFoundError")
      ]_vars

\* C19 (as claimed): ... the error kind is InvalidTokenError for the
\* verify-email and reset-password flows, also when no record matches.
FailedConsumeIsInvalidToken ==
    [][\A p \in Procs :
          /\ FailedTokenLookupCommitsNothing(p)
          /\ Called(p, "verifyEmail")
             => \A email \in Emails : \A token \in PinTokens \cup {""} :
                  /\ VerifyMismatchOrExpired(p, email, token)
                     => FailsWith("InvalidTokenError")
                  /\ (~Registered(email) /\ verifyEmail(p, email, token))
                     => FailsWith("InvalidTokenError")
      ]_vars

\* C19 witness: changePassword presented the stored reset token after its
\* duration and failed with InvalidTokenError; the expired pair is still
\* stored and the row is as before.
ExpiredResetTokenStaysStored ==
    /\ done.op = "changePassword"
    /\ done.ret = "InvalidTokenError"
    /\ done.id \in Ids
    /\ done.token = users[done.id].reset_password_token
    /\ Elapsed(users[done.id].reset_password_sent_at)
          > RESET_PASSWORD_TOKEN_EXPIRATION_DURATION_IN_MINUTES
    /\ users[done.id] = done.before
    /\ done.mail = <<>>

\* A verified email has a verification date.
VerifiedHasDate ==
    \A i \in Ids : users[i].email_verified => users[i].email_verified_at # NoDate

\* C20: in every reachable state a user with email_verified = true has a
\* non-null email_verified_at; the update that ends verifyEmail,
\* loginWithMagicLink or changePassword sets email_verified true and
\* email_verified_at to the current time (the clock when the update is
\* called) together, and no other step sets email_verified true or changes
\* email_verified_at.
VerifiedAndDateSetTogether ==
    /\ []VerifiedHasDate
    /\ [][/\ \A p \in Procs :
               /\ (pc'[p] \in {"verifyEmail_update",
                                "loginWithMagicLink_update",
                                "changePassword_update"}
                   /\ pc'[p] # pc[p])
                  => /\ {"email_verified", "email_verified_at"}
                           \subseteq DOMAIN loc'[p].fields
                     /\ loc'[p].fields.email_verified
                     /\ loc'[p].fields.email_verified_at = now
               /\ (pc[p] \in {"verifyEmail_update",
                               "loginWithMagicLink_update",
                               "changePassword_update"}
                   /\ pc'[p] = "idle")
                  => /\ users'[loc[p].id].email_verified
                     /\ users'[loc[p].id].email_verified_at
                           = loc[p].fields.email_verified_at
          /\ \A i \in Ids :
               \/ /\ users'[i].email_verified_at = users[i].email_verified_at
                  /\ users[i].email_verified \/ ~users'[i].email_verified
               \/ /\ done'.op \in ConsumeOps /\ done'.ret = "ok" /\ done'.id = i
                  /\ users'[i].email_verified
                  /\ users'[i].email_verified_at \in StartTime..now
         ]_vars

\* C20 witness: verifyEmail has just verified an email that had never been
\* verified: the flag is set and the date is the current time.
EmailVerifiedWithDate ==
    /\ done.op = "verifyEmail"
    /\ done.ret = "ok"
    /\ ~done.before.email_verified
    /\ done.before.email_verified_at = NoDate
    /\ users[done.id].email_verified
    /\ users[done.id].email_verified_at = now

\* C21: in every reachable state a user whose email_verified is true holds
\* no verify-email token that verifyEmail would still accept: the stored
\* verify_email_token of a verified user is null, or at least no longer
\* within its duration.
VerifiedHasNoAcceptableVerifyToken ==
    \A i \in Ids :
        users[i].email_verified
        => \/ users[i].verify_email_token = Null
           \/ verifyEmail_lookup(users[i].email, users[i].verify_email_token)
                 # "await"

\* The token operations, and for the update step of each the fields of its
\* own family: its token pair, the verification flag and date for the
\* consumes, the sign-in date for the magic-link login and the password for
\* changePassword.
TokenOps ==
    {"sendEmailAddressVerificationEmail", "verifyEmail",
     "sendSendMagicLinkEmail", "loginWithMagicLink",
     "sendResetPasswordEmail", "changePassword"}

VerifiedFields == {"email_verified", "email_verified_at"}

OwnFields(op) ==
    CASE op = "sendEmailAddressVerificationEmail"
           -> {"verify_email_token", "verify_email_sent_at"}
      [] op = "verifyEmail"
           -> {"verify_email_token", "verify_email_sent_at"}
              \cup VerifiedFields
      [] op = "sendSendMagicLinkEmail"
           -> {"magic_link_token", "magic_link_sent_at"}
      [] op = "loginWithMagicLink"
           -> {"magic_link_token", "magic_link_sent_at", "last_sign_in_at"}
              \cup VerifiedFields
      [] op = "sendResetPasswordEmail"
           -> {"reset_password_token", "reset_password_sent_at"}
      [] op = "changePassword"
           -> {"reset_password_token", "reset_password_sent_at",
               "encrypted_password"} \cup VerifiedFields

ProfileFields == {"given_name", "family_name", "phone_number", "job"}

\* The step changes at most the fields `fields` of record id, and nothing
\* of any other record; no record is added or removed.
ChangesOnly(id, fields) ==
    /\ Len(users') = Len(users)
    /\ \A i \in Ids \ {id} : users'[i] = users[i]
    /\ id \in Ids
       => \A f \in DOMAIN users[id] \ fields : users'[id][f] = users[id][f]

\* C22: no step writes more than one record or removes one; every step of a
\* token operation that writes a record (the update of a consume or of an
\* issue) writes only the record the operation read (or created) and only
\* the fields of its own family: the token pairs of the other two families,
\* every other record, sign_in_count and the profile fields are unchanged,
\* and encrypted_password is unchanged unless the step is the update of
\* changePassword; the lookup step, the breach check, the hashing, the
\* generation of a token, the sendMail step and every failing step write
\* nothing; the create of a magic-link request at most appends a record; the
\* update of updatePersonalInformations changes only given_name,
\* family_name, phone_number and job of the record the call names.
OperationsWriteOnlyOwnFamily ==
    [][/\ \A p \in Procs :
            (pc[p] = "sendSendMagicLinkEmail_create" /\ pc'[p] # pc[p])
            => /\ Len(users') \in {Len(users), Len(users) + 1}
               /\ \A i \in Ids : users'[i] = users[i]
       /\ users' # users
          => /\ Len(users') >= Len(users)
             /\ \A i \in Ids : \A j \in Ids :
                  (users'[i] # users[i] /\ users'[j] # users[j]) => i = j
             /\ \A p \in Procs :
                  /\ \A op \in TokenOps :
                       /\ ~Called(p, op)
                       /\ (/\ pc[p] \notin
                                {"idle", "sendSendMagicLinkEmail_create"}
                           /\ loc[p].op = op
                           /\ pc'[p] # pc[p])
                          => /\ ChangesOnly(loc[p].id, OwnFields(op))
                             /\ users'[loc[p].id].sign_in_count
                                   = users[loc[p].id].sign_in_count
                             /\ op # "changePassword"
                                => users'[loc[p].id].encrypted_password
                                      = users[loc[p].id].encrypted_password
                  /\ ~Called(p, "updatePersonalInformations")
                  /\ (/\ pc[p] = "updatePersonalInformations_update"
                      /\ pc'[p] # pc[p])
                     => ChangesOnly(loc[p].id, ProfileFields)
      ]_vars

\* C22 witness: with two records in the store, a magic-link login has just
\* consumed the token of a record whose verify-email and reset-password
\* tokens were pending, and both are still stored.
MagicLinkLoginKeptOtherFamilies ==
    /\ done.op = "loginWithMagicLink"
    /\ done.ret = "ok"
    /\ Len(users) = 2
    /\ done.before.verify_email_token # Null
    /\ done.before.reset_password_token # Null
    /\ users[done.id].magic_link_token = Null
    /\ users[done.id].verify_email_token = done.before.verify_email_token
    /\ users[done.id].reset_password_token
          = done.before.reset_password_token
    /\ users[done.id].encrypted_password = done.before.encrypted_password

====
